---------------------------- MODULE Spec2Model ----------------------------
(***************************************************************************)
(* Model of the micro-learning quiz bot: the profile store                 *)
(* (sandbox_storage.py), the answer evaluator (sandbox_answer_evaluator.py)*)
(* the question generator (sandbox_question_generator.py) and the chat     *)
(* handlers that drive them (bot.py).                                      *)
(*                                                                         *)
(* Text is modelled as a sequence of one-character strings, so that        *)
(* strip(), upper(), lower(), split() and the `in` substring test are      *)
(* computed as Python computes them.                                       *)
(***************************************************************************)
EXTENDS Integers, Sequences, FiniteSets, TLC

VARIABLES
    store,           \* user_id -> the content of <data>/users/<user_id>_profile.json
    now,             \* the clock datetime.now() reads
    active_quizzes,  \* bot.py: active_quizzes, user_id -> pending QuizQuestion
    last,            \* the last call made and what it returned
    enroll_called,   \* history: the users enroll_user was ever called for
    hist,            \* history: the is_correct values evaluated since a fresh profile
    calls            \* evaluate_answer calls in flight: caller -> the call's position

vars == <<store, now, active_quizzes, last, enroll_called, hist, calls>>

-----------------------------------------------------------------------------
(* Bounds of the model.                                                    *)

\* evaluate_answer is not explored past this many answered questions per user
MaxQuestions == 3
\* the clock stops ticking at this value
MaxClock == 1
\* length of the answer sequences explored on a fresh profile
MaxHist == 6
\* largest total_questions of the profiles given to the difficulty selector
MaxTotal == 11
MaxAsked == 2

Users == {"u1", "u2"}

\* the callers that may be inside evaluate_answer at the same time
Procs == {"p1", "p2"}
\* a caller that is not inside evaluate_answer
Idle == [pc |-> "idle"]

-----------------------------------------------------------------------------
(* Text helpers: Python str methods on sequences of characters.            *)

LowerCase == <<"a","b","c","d","e","f","g","h","i","j","k","l","m",
               "n","o","p","q","r","s","t","u","v","w","x","y","z">>
UpperCase == <<"A","B","C","D","E","F","G","H","I","J","K","L","M",
               "N","O","P","Q","R","S","T","U","V","W","X","Y","Z">>
WhiteSpace == {" ", "\t", "\n"}

\* one character of str.upper()
ToUpper(c) ==
    IF \E i \in 1..26 : LowerCase[i] = c
    THEN UpperCase[CHOOSE i \in 1..26 : LowerCase[i] = c]
    ELSE c

\* one character of str.lower()
ToLower(c) ==
    IF \E i \in 1..26 : UpperCase[i] = c
    THEN LowerCase[CHOOSE i \in 1..26 : UpperCase[i] = c]
    ELSE c

upper(s) == [i \in 1..Len(s) |-> ToUpper(s[i])]
lower(s) == [i \in 1..Len(s) |-> ToLower(s[i])]

\* str.strip(): drop leading and trailing whitespace
strip(s) ==
    LET keep == {i \in 1..Len(s) : s[i] \notin WhiteSpace}
    IN  IF keep = {} THEN <<>>
        ELSE LET lo == CHOOSE i \in keep : \A j \in keep : i <= j
                 hi == CHOOSE i \in keep : \A j \in keep : j <= i
             IN  SubSeq(s, lo, hi)

\* Python `needle in hay` on strings
Contains(needle, hay) ==
    \E i \in 0..(Len(hay) - Len(needle)) :
        SubSeq(hay, i + 1, i + Len(needle)) = needle

\* str.startswith
startswith(s, prefix) ==
    /\ Len(prefix) <= Len(s)
    /\ SubSeq(s, 1, Len(prefix)) = prefix

\* str.split(): the maximal runs of non-whitespace characters, in order
RECURSIVE split(_)
split(s) ==
    LET t == strip(s)
    IN  IF t = <<>> THEN <<>>
        ELSE LET ws == {i \in 1..Len(t) : t[i] \in WhiteSpace}
             IN  IF ws = {} THEN <<t>>
                 ELSE LET cut == CHOOSE i \in ws : \A j \in ws : i <= j
                      IN  <<SubSeq(t, 1, cut - 1)>> \o split(SubSeq(t, cut + 1, Len(t)))

\* chr(65 + i)
chr65(i) == <<UpperCase[i + 1]>>

-----------------------------------------------------------------------------
(* Courses, curricula and the static fallback table                        *)
(* (sandbox_question_generator.py).  The model keeps two or three topics   *)
(* of every course, some that have entries in the fallback table and one   *)
(* that has none, and at most two entries per topic.                       *)

PythonBasics    == <<"p","y","t","h","o","n","-","b","a","s","i","c","s">>
JavascriptIntro == <<"j","a","v","a","s","c","r","i","p","t","-","i","n","t","r","o">>
DataScience     == <<"d","a","t","a","-","s","c","i","e","n","c","e">>
WebDev          == <<"w","e","b","-","d","e","v">>
Cobol           == <<"c","o","b","o","l">>

\* self.course_curricula: course -> its topics
course_curricula ==
    [c \in {PythonBasics, JavascriptIntro, DataScience, WebDev} |->
        CASE c = PythonBasics    -> <<"Variables and Data Types", "Lists and Dictionaries",
                                     "String Manipulation">>
          [] c = JavascriptIntro -> <<"Variables (let, const, var)", "DOM Manipulation">>
          [] c = DataScience     -> <<"Data Types and Structures", "Pandas DataFrames">>
          [] c = WebDev          -> <<"CSS3 and Flexbox", "Responsive Design">>]

\* bot.py handle_enroll_command: available_courses
available_courses == {PythonBasics, JavascriptIntro, DataScience, WebDev}

Difficulties == {"beginner", "intermediate", "advanced"}

PyVarQ1 ==
    [question_text  |-> <<"What is the correct way to create a variable in Python?">>,
     options        |-> << <<"A",")"," ","v","a","r"," ","x"," ","="," ","5">>,
                           <<"B",")"," ","x"," ","="," ","5">>,
                           <<"C",")"," ","i","n","t"," ","x"," ","="," ","5">>,
                           <<"D",")"," ","d","e","c","l","a","r","e"," ","x"," ","="," ","5">> >>,
     correct_answer |-> <<"B">>,
     explanation    |-> <<"variables are created by assignment">>,
     estimated_time |-> 45]

PyVarQ3 ==
    [question_text  |-> <<"What data type would Python assign to the variable: x = 3.14?">>,
     options        |-> << <<"A",")"," ","i","n","t">>,
                           <<"B",")"," ","f","l","o","a","t">>,
                           <<"C",")"," ","s","t","r","i","n","g">>,
                           <<"D",")"," ","d","e","c","i","m","a","l">> >>,
     correct_answer |-> <<"B">>,
     explanation    |-> <<"numbers with decimal points are floats">>,
     estimated_time |-> 35]

PyListQ1 ==
    [question_text  |-> <<"What is the correct way to create a list in Python?">>,
     options        |-> << <<"A",")"," ","l","i","s","t"," ","="," ","{","1",","," ","2",","," ","3","}">>,
                           <<"B",")"," ","l","i","s","t"," ","="," ","[","1",","," ","2",","," ","3","]">>,
                           <<"C",")"," ","l","i","s","t"," ","="," ","(","1",","," ","2",","," ","3",")">>,
                           <<"D",")"," ","l","i","s","t"," ","="," ","<","1",","," ","2",","," ","3",">">> >>,
     correct_answer |-> <<"B">>,
     explanation    |-> <<"lists are created using square brackets">>,
     estimated_time |-> 50]

JsVarQ1 ==
    [question_text  |-> <<"Which keyword should you use to declare a variable that won't be reassigned?">>,
     options        |-> << <<"A",")"," ","v","a","r">>,
                           <<"B",")"," ","l","e","t">>,
                           <<"C",")"," ","c","o","n","s","t">>,
                           <<"D",")"," ","f","i","n","a","l">> >>,
     correct_answer |-> <<"C">>,
     explanation    |-> <<"const is for variables that are not reassigned">>,
     estimated_time |-> 40]

DsTypesQ1 ==
    [question_text  |-> <<"Which Python library is most commonly used for data manipulation?">>,
     options        |-> << <<"A",")"," ","N","u","m","P","y">>,
                           <<"B",")"," ","P","a","n","d","a","s">>,
                           <<"C",")"," ","M","a","t","p","l","o","t","l","i","b">>,
                           <<"D",")"," ","S","c","i","k","i","t","-","l","e","a","r","n">> >>,
     correct_answer |-> <<"B">>,
     explanation    |-> <<"Pandas is the primary library for data manipulation">>,
     estimated_time |-> 45]

WebCssQ1 ==
    [question_text  |-> <<"Which CSS property is used to create a flex container?">>,
     options        |-> << <<"A",")"," ","d","i","s","p","l","a","y",":"," ","f","l","e","x">>,
                           <<"B",")"," ","f","l","e","x",":"," ","c","o","n","t","a","i","n","e","r">>,
                           <<"C",")"," ","l","a","y","o","u","t",":"," ","f","l","e","x">>,
                           <<"D",")"," ","p","o","s","i","t","i","o","n",":"," ","f","l","e","x">> >>,
     correct_answer |-> <<"A">>,
     explanation    |-> <<"display: flex turns an element into a flex container">>,
     estimated_time |-> 45]

\* fallback_questions.get(course, {}).get(topic, [])
fallback_questions(course, topic) ==
    CASE course = PythonBasics /\ topic = "Variables and Data Types"       -> <<PyVarQ1, PyVarQ3>>
      [] course = PythonBasics /\ topic = "Lists and Dictionaries"         -> <<PyListQ1>>
      [] course = JavascriptIntro /\ topic = "Variables (let, const, var)" -> <<JsVarQ1>>
      [] course = DataScience /\ topic = "Data Types and Structures"       -> <<DsTypesQ1>>
      [] course = WebDev /\ topic = "CSS3 and Flexbox"                     -> <<WebCssQ1>>
      [] OTHER -> <<>>

\* difficulty_indicators.get(difficulty, "sample")
difficulty_indicators(difficulty) ==
    CASE difficulty = "beginner"     -> "fundamental"
      [] difficulty = "intermediate" -> "practical"
      [] difficulty = "advanced"     -> "complex"
      [] OTHER                       -> "sample"

GenericOptions ==
    << <<"A",")"," ","U","s","e"," ","t","h","e"," ","m","o","s","t"," ","c","o","m","m","o","n"," ",
         "a","p","p","r","o","a","c","h"," ","w","i","t","h"," ","b","a","s","i","c"," ",
         "s","y","n","t","a","x">>,
       <<"B",")"," ","F","o","l","l","o","w"," ","i","n","d","u","s","t","r","y"," ","b","e","s","t"," ",
         "p","r","a","c","t","i","c","e","s"," ","a","n","d"," ",
         "c","o","n","v","e","n","t","i","o","n","s">>,
       <<"C",")"," ","O","p","t","i","m","i","z","e"," ","f","o","r"," ",
         "p","e","r","f","o","r","m","a","n","c","e"," ","o","v","e","r"," ",
         "r","e","a","d","a","b","i","l","i","t","y">>,
       <<"D",")"," ","U","s","e"," ","t","h","e"," ","n","e","w","e","s","t"," ",
         "a","v","a","i","l","a","b","l","e"," ","f","e","a","t","u","r","e","s">> >>

\* the generic templated question of _get_fallback_question
GenericQuestion(course, topic, difficulty) ==
    [question_text  |-> <<"generic", difficulty_indicators(difficulty), difficulty, topic, course>>,
     options        |-> GenericOptions,
     correct_answer |-> <<"B">>,
     explanation    |-> <<"generic", topic, course>>,
     estimated_time |-> 60]

\* _get_fallback_question taking any entry of any course that has the topic,
\* or any entry of the course, before the generic question
_get_fallback_question_nearby(course, topic, difficulty) ==
    LET same_topic  == {fallback_questions(c, topic) : c \in DOMAIN course_curricula}
        same_course == IF course \in DOMAIN course_curricula
                       THEN {fallback_questions(course, course_curricula[course][i]) :
                                i \in 1..Len(course_curricula[course])}
                       ELSE {}
        nearby      == UNION {{qs[i] : i \in 1..Len(qs)} : qs \in same_topic \cup same_course}
    IN  IF nearby # {} THEN nearby
        ELSE {GenericQuestion(course, topic, difficulty)}

\* _get_fallback_question: the dicts random.choice may return
_get_fallback_question(course, topic, difficulty) ==
    LET topic_questions == fallback_questions(course, topic)
    IN  IF topic_questions # <<>>
        THEN {topic_questions[i] : i \in 1..Len(topic_questions)}
        ELSE {GenericQuestion(course, topic, difficulty)}

-----------------------------------------------------------------------------
(* The remote generator's reply, as _generate_ai_question sees it.         *)
(*   api_error        self.client.chat.completions.create raised           *)
(*                    (transport, quota, timeout) or the reply had no text *)
(*   bad_json         json.loads raised on the reply text                  *)
(*   json_not_object  json.loads returned a list or a scalar               *)
(*   json_object      json.loads returned the dict `data`                  *)

RemoteOptions4 ==
    << <<"A",")"," ","o","n","e">>, <<"B",")"," ","t","w","o">>,
       <<"C",")"," ","t","h","r","e","e">>, <<"D",")"," ","f","o","u","r">> >>

ReplyOk ==
    [question_text |-> <<"remote question">>, options |-> RemoteOptions4,
     correct_answer |-> <<"D">>, explanation |-> <<"remote explanation">>,
     estimated_time |-> 30]

\* no estimated_time: question_data.get("estimated_time", 60) supplies it
ReplyNoTime ==
    [question_text |-> <<"remote question">>, options |-> RemoteOptions4,
     correct_answer |-> <<"A">>, explanation |-> <<"remote explanation">>]

\* three options instead of four
ReplyThreeOptions ==
    [question_text |-> <<"remote question">>, options |-> SubSeq(RemoteOptions4, 1, 3),
     correct_answer |-> <<"C">>, explanation |-> <<"remote explanation">>,
     estimated_time |-> 30]

\* correct_answer is the whole option label, not one letter
ReplyLongAnswer ==
    [question_text |-> <<"remote question">>, options |-> RemoteOptions4,
     correct_answer |-> <<"B",")"," ","t","w","o">>, explanation |-> <<"remote explanation">>,
     estimated_time |-> 30]

\* no explanation field
ReplyNoExplanation ==
    [question_text |-> <<"remote question">>, options |-> RemoteOptions4,
     correct_answer |-> <<"A">>, estimated_time |-> 30]

\* no options field
ReplyNoOptions ==
    [question_text |-> <<"remote question">>,
     correct_answer |-> <<"A">>, explanation |-> <<"remote explanation">>]

RemoteReplies ==
    {ReplyOk, ReplyNoTime, ReplyThreeOptions, ReplyLongAnswer,
     ReplyNoExplanation, ReplyNoOptions}

RemoteOutcomes ==
    {[kind |-> "api_error"], [kind |-> "bad_json"], [kind |-> "json_not_object"]}
    \cup {[kind |-> "json_object", data |-> d] : d \in RemoteReplies}

\* the keys QuizQuestion(...) subscripts: a missing one raises KeyError
RequiredKeys == {"question_text", "options", "correct_answer", "explanation"}

\* _create_question_from_data, and the QuizQuestion(...) call at lines 233-245;
\* question_id and created_date (timestamp and random suffix) are left out
_create_question_from_data(course, topic, difficulty, question_data) ==
    [course         |-> course,
     difficulty     |-> difficulty,
     question_text  |-> question_data.question_text,
     question_type  |-> "multiple_choice",
     options        |-> question_data.options,
     correct_answer |-> question_data.correct_answer,
     explanation    |-> question_data.explanation,
     topic          |-> topic,
     estimated_time |-> IF "estimated_time" \in DOMAIN question_data
                        THEN question_data.estimated_time ELSE 60]

\* what the except handlers at lines 249-258 return
FallbackQuestions(course, topic, difficulty) ==
    {_create_question_from_data(course, topic, difficulty, qd) :
        qd \in _get_fallback_question(course, topic, difficulty)}

\* an exception that leaves _generate_ai_question
Raised == [raised |-> "Exception"]

\* whether x is a QuizQuestion object
IsQuizQuestion(x) ==
    {"course", "topic", "difficulty", "options", "correct_answer"} \subseteq DOMAIN x

\* TryBody without the handler for errors raised while the question is built
TryBody_unhandled(course, topic, difficulty, remote) ==
    IF remote.kind \in {"api_error", "bad_json"}
    THEN FallbackQuestions(course, topic, difficulty)
    ELSE IF remote.kind = "json_not_object"
    THEN {Raised}
    ELSE IF RequiredKeys \subseteq DOMAIN remote.data
    THEN {_create_question_from_data(course, topic, difficulty, remote.data)}
    ELSE {Raised}

\* one path of the outer try body, lines 199-247, once course_info is found
TryBody(course, topic, difficulty, remote) ==
    IF remote.kind \in {"api_error", "bad_json"}
    THEN \* inner except Exception: question_data = fallback (always complete)
         FallbackQuestions(course, topic, difficulty)
    ELSE IF remote.kind = "json_not_object"
    THEN \* question_data["question_text"] raises TypeError: outer except Exception
         FallbackQuestions(course, topic, difficulty)
    ELSE IF RequiredKeys \subseteq DOMAIN remote.data
    THEN {_create_question_from_data(course, topic, difficulty, remote.data)}
    ELSE \* KeyError: outer except Exception
         FallbackQuestions(course, topic, difficulty)

\* _generate_ai_question: the set of values one call may return
_generate_ai_question(course, topic, difficulty, remote) ==
    IF course \notin DOMAIN course_curricula
    THEN \* self.course_curricula[course] raises KeyError: outer except Exception
         FallbackQuestions(course, topic, difficulty)
    ELSE TryBody(course, topic, difficulty, remote)

-----------------------------------------------------------------------------
(* Answer checking (SandboxQuestionGenerator.check_answer).                *)

\* check_answer trying the option texts before the letters and digits
check_answer_text_first(question, user_answer) ==
    LET user_answer_clean    == upper(strip(user_answer))
        correct_answer_clean == upper(strip(question.correct_answer))
        hits == {i \in 1..Len(question.options) :
                    Contains(lower(user_answer), lower(question.options[i]))}
        first == CHOOSE i \in hits : \A j \in hits : i <= j
        is_correct ==
            IF hits # {}
            THEN chr65(first - 1) = correct_answer_clean
            ELSE IF user_answer_clean \in {<<"A">>, <<"B">>, <<"C">>, <<"D">>}
            THEN user_answer_clean = correct_answer_clean
            ELSE IF user_answer_clean \in {<<"1">>, <<"2">>, <<"3">>, <<"4">>}
            THEN (CASE user_answer_clean = <<"1">> -> <<"A">>
                    [] user_answer_clean = <<"2">> -> <<"B">>
                    [] user_answer_clean = <<"3">> -> <<"C">>
                    [] user_answer_clean = <<"4">> -> <<"D">>) = correct_answer_clean
            ELSE FALSE
    IN  [user_answer    |-> user_answer,
         correct_answer |-> question.correct_answer,
         is_correct     |-> is_correct]

\* check_answer stopping at the last option that contains the answer
check_answer_last_match(question, user_answer) ==
    LET user_answer_clean    == upper(strip(user_answer))
        correct_answer_clean == upper(strip(question.correct_answer))
        hits == {i \in 1..Len(question.options) :
                    Contains(lower(user_answer), lower(question.options[i]))}
        final == CHOOSE i \in hits : \A j \in hits : j <= i
        is_correct ==
            IF user_answer_clean \in {<<"A">>, <<"B">>, <<"C">>, <<"D">>}
            THEN user_answer_clean = correct_answer_clean
            ELSE IF user_answer_clean \in {<<"1">>, <<"2">>, <<"3">>, <<"4">>}
            THEN (CASE user_answer_clean = <<"1">> -> <<"A">>
                    [] user_answer_clean = <<"2">> -> <<"B">>
                    [] user_answer_clean = <<"3">> -> <<"C">>
                    [] user_answer_clean = <<"4">> -> <<"D">>) = correct_answer_clean
            ELSE IF hits # {}
            THEN chr65(final - 1) = correct_answer_clean
            ELSE FALSE
    IN  [user_answer    |-> user_answer,
         correct_answer |-> question.correct_answer,
         is_correct     |-> is_correct]

\* the QuizResult check_answer returns (question_id, time_taken, timestamp left out)
check_answer(question, user_answer) ==
    LET user_answer_clean    == upper(strip(user_answer))
        correct_answer_clean == upper(strip(question.correct_answer))
        \* the options the for loop would stop at
        hits == {i \in 1..Len(question.options) :
                    Contains(lower(user_answer), lower(question.options[i]))}
        first == CHOOSE i \in hits : \A j \in hits : i <= j
        is_correct ==
            IF user_answer_clean \in {<<"A">>, <<"B">>, <<"C">>, <<"D">>}
            THEN user_answer_clean = correct_answer_clean
            ELSE IF user_answer_clean \in {<<"1">>, <<"2">>, <<"3">>, <<"4">>}
            THEN (CASE user_answer_clean = <<"1">> -> <<"A">>
                    [] user_answer_clean = <<"2">> -> <<"B">>
                    [] user_answer_clean = <<"3">> -> <<"C">>
                    [] user_answer_clean = <<"4">> -> <<"D">>) = correct_answer_clean
            ELSE IF hits # {}
            THEN chr65(first - 1) = correct_answer_clean
            ELSE FALSE
    IN  [user_answer    |-> user_answer,
         correct_answer |-> question.correct_answer,
         is_correct     |-> is_correct]

-----------------------------------------------------------------------------
(* Difficulty selection (SandboxQuestionGenerator._determine_difficulty).  *)
(* accuracy = correct_answers / total_questions is a float; for the        *)
(* counters explored, accuracy >= 0.8 is 10 * correct >= 8 * total exactly *)
(* (a quotient of small integers is never within one ulp of 0.8 or 0.9     *)
(* without being equal to it).                                             *)

AccuracyAtLeast(profile, tenths) ==
    10 * profile.correct_answers >= tenths * profile.total_questions

\* _determine_difficulty asking for more than 80% where the code accepts 80%
_determine_difficulty_strict(profile) ==
    IF profile.total_questions = 0 THEN "beginner"
    ELSE IF 10 * profile.correct_answers > 8 * profile.total_questions
            /\ profile.total_questions >= 5 THEN "intermediate"
    ELSE IF AccuracyAtLeast(profile, 9) /\ profile.total_questions >= 10 THEN "advanced"
    ELSE "beginner"

_determine_difficulty(profile) ==
    IF profile.total_questions = 0 THEN "beginner"
    ELSE IF AccuracyAtLeast(profile, 8) /\ profile.total_questions >= 5 THEN "intermediate"
    ELSE IF AccuracyAtLeast(profile, 9) /\ profile.total_questions >= 10 THEN "advanced"
    ELSE "beginner"

-----------------------------------------------------------------------------
(* The profile store (SandboxStorage).  A user's file is absent, holds a   *)
(* profile, or holds text that json.load rejects.                         *)
(* last_quiz_date, completed_course and preferences are left out of the    *)
(* record: no operation modelled here reads them.                          *)

Absent  == [file |-> "absent"]
Corrupt == [file |-> "corrupt"]
\* Python None, where a profile or a question is expected
None    == [none |-> TRUE]
\* an Optional[str] timestamp: <<>> is None, <<t>> the time t
NoDate  == <<>>
\* an enrolled_course that is falsy: None or the empty string
NoCourse == <<>>

\* outcome of the file read in get_user_profile
ReadOutcomes == {"ok", "io_error"}
\* outcome of the file write in save_user_profile: open(file, 'w') raised and the
\* file is as it was, or json.dump raised after open truncated the file
WriteOutcomes == {"ok", "open_failed", "dump_failed"}

IsProfile(x) == x \notin {Absent, Corrupt, None}

\* UserProfile(user_id=..., enrolled_course=..., start_date=...): counters default to 0
UserProfile(user_id, enrolled_course, start_date) ==
    [user_id         |-> user_id,
     enrolled_course |-> enrolled_course,
     start_date      |-> start_date,
     total_questions |-> 0,
     correct_answers |-> 0,
     current_streak  |-> 0,
     longest_streak  |-> 0]

\* get_user_profile: the value returned when the files are `st`
get_user_profile(st, user_id, read) ==
    IF st[user_id] = Absent THEN None            \* not os.path.exists
    ELSE IF read = "io_error" THEN None          \* except Exception: return None
    ELSE IF st[user_id] = Corrupt THEN None      \* json.load raised: return None
    ELSE st[user_id]

\* save_user_profile writing every user's profile to the same file
save_user_profile_one_file(st, profile, write) ==
    CASE write = "ok"          -> [u \in Users |-> profile]
      [] write = "open_failed" -> st
      [] write = "dump_failed" -> [u \in Users |-> Corrupt]

\* save_user_profile: the files after the call
save_user_profile(st, profile, write) ==
    CASE write = "ok"          -> [st EXCEPT ![profile.user_id] = profile]
      [] write = "open_failed" -> st
      [] write = "dump_failed" -> [st EXCEPT ![profile.user_id] = Corrupt]

\* save_user_profile: the value returned
save_returns(write) == write = "ok"

\* enroll_user, lines 66-76: the profile it goes on to save
enroll_profile(st, user_id, course, read) ==
    LET profile == get_user_profile(st, user_id, read)
    IN  IF profile = None
        THEN UserProfile(user_id, course, <<now>>)
        ELSE [profile EXCEPT !.enrolled_course = course,
                             !.start_date = IF @ = NoDate THEN <<now>> ELSE @]

\* update_statistics with total_questions left alone on a correct answer
update_statistics_no_total(profile, is_correct) ==
    IF is_correct
    THEN [profile EXCEPT !.correct_answers = @ + 1,
                         !.current_streak = @ + 1,
                         !.longest_streak = IF profile.current_streak + 1 > @
                                            THEN profile.current_streak + 1 ELSE @]
    ELSE [profile EXCEPT !.total_questions = @ + 1, !.current_streak = 0]

\* update_statistics with the longest_streak update left out
update_statistics_no_longest(profile, is_correct) ==
    IF is_correct
    THEN [profile EXCEPT !.total_questions = @ + 1,
                         !.correct_answers = @ + 1,
                         !.current_streak = @ + 1]
    ELSE [profile EXCEPT !.total_questions = @ + 1, !.current_streak = 0]

\* update_statistics with the streak kept on an incorrect answer
update_statistics_no_reset(profile, is_correct) ==
    IF is_correct
    THEN [profile EXCEPT !.total_questions = @ + 1,
                         !.correct_answers = @ + 1,
                         !.current_streak = @ + 1,
                         !.longest_streak = IF profile.current_streak + 1 > @
                                            THEN profile.current_streak + 1 ELSE @]
    ELSE [profile EXCEPT !.total_questions = @ + 1]

\* update_statistics counting only the correct answers in total_questions
update_statistics_total_on_correct(profile, is_correct) ==
    IF is_correct
    THEN [profile EXCEPT !.total_questions = @ + 1,
                         !.correct_answers = @ + 1,
                         !.current_streak = @ + 1,
                         !.longest_streak = IF profile.current_streak + 1 > @
                                            THEN profile.current_streak + 1 ELSE @]
    ELSE [profile EXCEPT !.current_streak = 0]

\* evaluate_answer, lines 36-46: the counter update
update_statistics(profile, is_correct) ==
    LET p1 == [profile EXCEPT !.total_questions = @ + 1]
    IN  IF is_correct
        THEN LET p2 == [p1 EXCEPT !.correct_answers = @ + 1,
                                  !.current_streak = @ + 1]
             IN  IF p2.current_streak > p2.longest_streak
                 THEN [p2 EXCEPT !.longest_streak = p2.current_streak]
                 ELSE p2
        ELSE [p1 EXCEPT !.current_streak = 0]

\* _get_performance_summary: the level
performance_level(profile) ==
    IF profile.total_questions = 0 THEN "Learning"       \* accuracy = 0
    ELSE IF AccuracyAtLeast(profile, 9) THEN "Excellent"
    ELSE IF AccuracyAtLeast(profile, 8) THEN "Great"
    ELSE IF AccuracyAtLeast(profile, 7) THEN "Good"
    ELSE IF AccuracyAtLeast(profile, 6) THEN "Fair"
    ELSE "Learning"

\* evaluate_returns taking the level from the profile as it was read
evaluate_returns_level_before(profile, is_correct, write) ==
    IF profile = None
    THEN [success |-> FALSE, error |-> "User profile not found"]
    ELSE [success |-> TRUE,
          is_correct |-> is_correct,
          saved |-> save_returns(write),
          updated_profile |-> update_statistics(profile, is_correct),
          level |-> performance_level(profile)]

\* evaluate_answer: the dict returned, given what get_user_profile returned
evaluate_returns(profile, is_correct, write) ==
    IF profile = None
    THEN [success |-> FALSE, error |-> "User profile not found"]
    ELSE [success |-> TRUE,
          is_correct |-> is_correct,
          saved |-> save_returns(write),
          updated_profile |-> update_statistics(profile, is_correct),
          level |-> performance_level(update_statistics(profile, is_correct))]

\* evaluate_store creating a profile when none is found
evaluate_store_creates(st, user_id, is_correct, read, write) ==
    LET found   == get_user_profile(st, user_id, read)
        profile == IF found = None THEN UserProfile(user_id, NoCourse, NoDate) ELSE found
    IN  save_user_profile(st, update_statistics(profile, is_correct), write)

\* evaluate_answer: the files after the call
evaluate_store(st, user_id, is_correct, read, write) ==
    LET profile == get_user_profile(st, user_id, read)
    IN  IF profile = None THEN st
        ELSE save_user_profile(st, update_statistics(profile, is_correct), write)

-----------------------------------------------------------------------------
(* The core interface: enroll_user and evaluate_answer called one at a     *)
(* time, with any outcome of each file read and write.                     *)

InitStore ==
    /\ store = [u \in Users |-> Absent]
    /\ now = 0
    /\ active_quizzes = [u \in Users |-> None]
    /\ enroll_called = {}
    /\ hist = <<>>
    /\ calls = [p \in Procs |-> Idle]

Init ==
    /\ InitStore
    /\ last = [op |-> "init"]

Courses == {PythonBasics, WebDev}

\* enroll_user: the value returned; get_user_profile and save_user_profile catch
\* their own errors, so the except branch of enroll_user (return False) is not taken
enroll_returns(read, write) == TRUE

\* SandboxStorage.enroll_user(user_id, course)
EnrollUser(user_id, course, read, write) ==
    /\ store' = save_user_profile(store, enroll_profile(store, user_id, course, read), write)
    /\ enroll_called' = enroll_called \cup {user_id}
    /\ last' = [op |-> "enroll_user", user_id |-> user_id, course |-> course,
                read |-> read, returns |-> enroll_returns(read, write)]
    /\ UNCHANGED <<now, active_quizzes, hist, calls>>

\* the bound on the counters explored
CanEvaluate(user_id) ==
    IsProfile(store[user_id]) => store[user_id].total_questions < MaxQuestions

\* SandboxAnswerEvaluator.evaluate_answer(user_id, question, result): the whole call
EvaluateCall(user_id, is_correct, read, write) ==
    /\ store' = evaluate_store(store, user_id, is_correct, read, write)
    /\ last' = [op |-> "evaluate_answer", user_id |-> user_id] @@
               evaluate_returns(get_user_profile(store, user_id, read), is_correct, write)
    /\ UNCHANGED <<now, active_quizzes, enroll_called, calls>>

\* evaluate_answer called through the core interface
EvaluateAnswer(user_id, is_correct, read, write) ==
    /\ CanEvaluate(user_id)
    /\ EvaluateCall(user_id, is_correct, read, write)
    /\ UNCHANGED hist

\* time passes
Tick ==
    /\ now < MaxClock
    /\ now' = now + 1
    /\ last' = [op |-> "tick"]
    /\ UNCHANGED <<store, active_quizzes, enroll_called, hist, calls>>

Next ==
    \/ \E u \in Users, c \in Courses, r \in ReadOutcomes, w \in WriteOutcomes :
          EnrollUser(u, c, r, w)
    \/ \E u \in Users, b \in BOOLEAN, r \in ReadOutcomes, w \in WriteOutcomes :
          EvaluateAnswer(u, b, r, w)
    \/ Tick

Spec == Init /\ [][Next]_vars

\* the four counters of a stored profile
Counters(p) ==
    <<p.total_questions, p.correct_answers, p.current_streak, p.longest_streak>>

\* C13: enroll_user on a user with a stored profile sets enrolled_course to the
\* new course and leaves the four counters as they were; on a user without a
\* profile it stores one whose four counters are 0.
C13_EnrollKeepsCounters ==
    [][\A u \in Users :
          (last'.op = "enroll_user" /\ last'.user_id = u)
          => /\ IsProfile(store'[u])
             /\ store'[u].enrolled_course = last'.course
             /\ Counters(store'[u]) =
                   IF IsProfile(store[u]) THEN Counters(store[u]) ELSE <<0, 0, 0, 0>>]_vars

\* C14: a stored profile has the start_date its first enrolment gave it: a
\* profile that enroll_user stores has a start_date, and no enroll or evaluate
\* step changes the start_date of a stored profile.
C14_StartDateSetOnce ==
    [][\A u \in Users :
          /\ (last'.op = "enroll_user" /\ last'.user_id = u /\ IsProfile(store'[u]))
                => store'[u].start_date # NoDate
          /\ (IsProfile(store[u]) /\ IsProfile(store'[u]))
                => store'[u].start_date = store[u].start_date]_vars

\* C17: from one state to the next of an execution where enroll_user and
\* evaluate_answer run one at a time, a user's stored total_questions and
\* correct_answers do not decrease.
C17_CountersNeverDecrease ==
    [][\A u \in Users :
          (IsProfile(store[u]) /\ IsProfile(store'[u]))
          => /\ store'[u].total_questions >= store[u].total_questions
             /\ store'[u].correct_answers >= store[u].correct_answers]_vars


\* C30: when the read of an existing user's record fails during enroll_user
\* (I/O error, or a record that does not parse), enroll_user returns False
\* and the stored record is unchanged.
C30_EnrollFailsOnUnreadableRecord ==
    [][\A u \in Users :
          (/\ last'.op = "enroll_user"
           /\ last'.user_id = u
           /\ \/ (IsProfile(store[u]) /\ last'.read = "io_error")
              \/ store[u] = Corrupt)
          => (/\ last'.returns = FALSE
              /\ store'[u] = store[u])]_vars

-----------------------------------------------------------------------------
(* Answer sequences on a fresh profile: user u1 is enrolled and answers    *)
(* up to MaxHist questions, every file read and write succeeding; hist     *)
(* records the is_correct value of each evaluation.                        *)

InitStreak ==
    /\ InitStore
    /\ last = [op |-> "init"]

StreakEnroll(course) ==
    EnrollUser("u1", course, "ok", "ok")

StreakAnswer(is_correct) ==
    /\ IsProfile(store["u1"])
    /\ Len(hist) < MaxHist
    /\ EvaluateCall("u1", is_correct, "ok", "ok")
    /\ hist' = Append(hist, is_correct)

NextStreak ==
    \/ \E c \in Courses : StreakEnroll(c)
    \/ \E b \in BOOLEAN : StreakAnswer(b)

SpecStreak == InitStreak /\ [][NextStreak]_vars

\* the largest number in a non-empty finite set of numbers
Max(S) == CHOOSE x \in S : \A y \in S : y <= x

\* number of correct entries of h
CountCorrect(h) == Cardinality({i \in 1..Len(h) : h[i]})

\* length of the run of correct entries h ends with
TrailingRun(h) ==
    Max({0} \cup {n \in 1..Len(h) : \A k \in (Len(h) - n + 1)..Len(h) : h[k]})

\* length of the longest run of consecutive correct entries of h
LongestRun(h) ==
    Max({0} \cup {n \in 1..Len(h) : \E i \in 1..Len(h) :
                      /\ i + n - 1 <= Len(h)
                      /\ \A k \in i..(i + n - 1) : h[k]})

-----------------------------------------------------------------------------
(* Claims about the core interface.                                        *)

\* C2: evaluate_answer never returns success for an evaluation whose profile
\* write did not succeed (a failed write is returned as success = FALSE).
C2_WriteFailureSurfaced ==
    (last.op = "evaluate_answer" /\ last.success) => last.saved

\* C4: every stored profile has correct_answers <= total_questions.
C4_CorrectAtMostTotal ==
    \A u \in Users :
        IsProfile(store[u]) => store[u].correct_answers <= store[u].total_questions

\* C4 witness: a profile that has answered all its questions correctly, and
\* another with wrong answers among them
C4_Witness ==
    /\ IsProfile(store["u1"]) /\ IsProfile(store["u2"])
    /\ store["u1"].total_questions = MaxQuestions
    /\ store["u1"].correct_answers = MaxQuestions
    /\ store["u2"].correct_answers >= 1
    /\ store["u2"].correct_answers < store["u2"].total_questions

\* C5: every stored profile has longest_streak >= current_streak.
C5_LongestAtLeastCurrent ==
    \A u \in Users :
        IsProfile(store[u]) => store[u].longest_streak >= store[u].current_streak

\* C5 witness: a streak of two was broken and a new one begun
C5_Witness ==
    /\ IsProfile(store["u1"])
    /\ store["u1"].longest_streak = 2
    /\ store["u1"].current_streak = 0
    /\ IsProfile(store["u2"])
    /\ store["u2"].longest_streak = store["u2"].current_streak
    /\ store["u2"].current_streak >= 2

\* C6: after the evaluations hist on a freshly enrolled profile, total_questions
\* is the length of hist, correct_answers the number of correct entries,
\* current_streak the trailing run of correct entries and longest_streak the
\* longest run of consecutive correct entries.
C6_CountersFollowSequence ==
    IsProfile(store["u1"]) =>
        /\ store["u1"].total_questions = Len(hist)
        /\ store["u1"].correct_answers = CountCorrect(hist)
        /\ store["u1"].current_streak = TrailingRun(hist)
        /\ store["u1"].longest_streak = LongestRun(hist)

\* C6 witness: the sequence correct, correct, incorrect, correct
C6_Witness ==
    /\ hist = <<TRUE, TRUE, FALSE, TRUE>>
    /\ IsProfile(store["u1"])
    /\ store["u1"].total_questions = 4
    /\ store["u1"].correct_answers = 3
    /\ store["u1"].current_streak = 1
    /\ store["u1"].longest_streak = 2

\* C7: evaluate_answer for a user with no stored profile returns the failure
\* "User profile not found" and leaves the user without a record; a record
\* exists only for users enroll_user was called for.
C7_NoImplicitCreation ==
    /\ [](\A u \in Users : store[u] # Absent => u \in enroll_called)
    /\ [][\A u \in Users :
            (/\ last'.op = "evaluate_answer"
             /\ last'.user_id = u
             /\ store[u] = Absent)
            => (/\ last'.success = FALSE
                /\ last'.error = "User profile not found"
                /\ store'[u] = Absent)]_vars

\* C7 witness: evaluate_answer has just failed for a user who has no record,
\* while the other user has one
C7_Witness ==
    /\ last.op = "evaluate_answer"
    /\ last.success = FALSE
    /\ last.error = "User profile not found"
    /\ store[last.user_id] = Absent
    /\ \E u \in Users : IsProfile(store[u])


-----------------------------------------------------------------------------
(* The difficulty selector applied to a profile.  The profiles are those   *)
(* left by `correct` right answers followed by wrong ones.                 *)

DifficultyProfiles ==
    UNION {{[UserProfile("u1", PythonBasics, <<0>>) EXCEPT
                !.total_questions = t,
                !.correct_answers = c,
                !.current_streak  = IF c = t THEN c ELSE 0,
                !.longest_streak  = c] : c \in 0..t} : t \in 0..MaxTotal}

InitDifficulty ==
    /\ InitStore
    /\ last \in {[op |-> "profile", profile |-> p] : p \in DifficultyProfiles}

DetermineDifficulty ==
    /\ last.op = "profile"
    /\ last' = [op |-> "_determine_difficulty", profile |-> last.profile,
                returns |-> _determine_difficulty(last.profile)]
    /\ UNCHANGED <<store, now, active_quizzes, enroll_called, hist, calls>>

NextDifficulty == DetermineDifficulty

SpecDifficulty == InitDifficulty /\ [][NextDifficulty]_vars

\* C3: a profile with total_questions >= 10 and accuracy >= 0.9 is given
\* "advanced".
C3_AdvancedSelected ==
    (/\ last.op = "_determine_difficulty"
     /\ last.profile.total_questions >= 10
     /\ 10 * last.profile.correct_answers >= 9 * last.profile.total_questions)
    => last.returns = "advanced"

\* the condition under which the spec asks for "advanced"
MeetsAdvanced(profile) ==
    /\ profile.total_questions >= 10
    /\ 10 * profile.correct_answers >= 9 * profile.total_questions

\* C18: for a profile that does not meet the advanced condition, the selector
\* returns "beginner" when total_questions = 0, "intermediate" when accuracy is
\* at least 0.8 with total_questions >= 5, and "beginner" otherwise.
C18_BeginnerIntermediate ==
    (last.op = "_determine_difficulty" /\ ~MeetsAdvanced(last.profile))
    => last.returns =
          IF last.profile.total_questions = 0 THEN "beginner"
          ELSE IF /\ 10 * last.profile.correct_answers >= 8 * last.profile.total_questions
                  /\ last.profile.total_questions >= 5
               THEN "intermediate"
               ELSE "beginner"

\* C18 witness: 4 of 5 gives "intermediate"
C18_Witness ==
    /\ last.op = "_determine_difficulty"
    /\ last.profile.total_questions = 5
    /\ last.profile.correct_answers = 4
    /\ last.returns = "intermediate"

-----------------------------------------------------------------------------
(* One evaluation of a stored profile with any counters up to MaxTotal,    *)
(* with every outcome of the file read and write.                          *)

InitTier ==
    /\ store \in {[u \in Users |-> IF u = "u1" THEN p ELSE Absent] :
                    p \in {q \in DifficultyProfiles : q.total_questions < MaxTotal}}
    /\ now = 0
    /\ active_quizzes = [u \in Users |-> None]
    /\ enroll_called = {"u1"}
    /\ hist = <<>>
    /\ calls = [p \in Procs |-> Idle]
    /\ last = [op |-> "init"]

TierEvaluate(is_correct, read, write) ==
    /\ last.op = "init"
    /\ EvaluateCall("u1", is_correct, read, write)
    /\ UNCHANGED hist

NextTier ==
    \E b \in BOOLEAN, r \in ReadOutcomes, w \in WriteOutcomes : TierEvaluate(b, r, w)

SpecTier == InitTier /\ [][NextTier]_vars

\* the tier of `correct` right answers out of `total`
Tier(correct, total) ==
    IF 10 * correct >= 9 * total THEN "Excellent"
    ELSE IF 10 * correct >= 8 * total THEN "Great"
    ELSE IF 10 * correct >= 7 * total THEN "Good"
    ELSE IF 10 * correct >= 6 * total THEN "Fair"
    ELSE "Learning"

\* C19: the level returned by a successful evaluation is the tier of the
\* accuracy after the counter update, that is of the stored counters with this
\* answer counted: Excellent from 0.9, Great from 0.8, Good from 0.7, Fair
\* from 0.6, Learning below.
C19_TierOfUpdatedAccuracy ==
    [][(last'.op = "evaluate_answer" /\ last'.success)
       => LET old == store[last'.user_id]
          IN  last'.level = Tier(old.correct_answers + (IF last'.is_correct THEN 1 ELSE 0),
                                 old.total_questions + 1)]_vars

\* C19 witness: the seventh right answer out of ten gives Good, where six of
\* nine before the update is Fair
C19_Witness ==
    /\ last.op = "evaluate_answer"
    /\ last.success
    /\ last.is_correct
    /\ last.updated_profile.total_questions = 10
    /\ last.updated_profile.correct_answers = 7
    /\ last.level = "Good"

-----------------------------------------------------------------------------
(* The question provider applied to one request, with every reply of the   *)
(* remote generator.                                                       *)

ProviderCourses == available_courses \cup {Cobol}

ProviderTopics ==
    {course_curricula[c][i] : c \in DOMAIN course_curricula, i \in 1..2}
    \cup {"Lists and Dictionaries", "No Such Topic"}

ProviderDifficulties == Difficulties \cup {"expert"}

InitProvider ==
    /\ InitStore
    /\ last \in {[op |-> "request", course |-> c, topic |-> t, difficulty |-> d,
                  remote |-> r] :
                    c \in ProviderCourses, t \in ProviderTopics,
                    d \in ProviderDifficulties, r \in RemoteOutcomes}

GenerateAIQuestion ==
    /\ last.op = "request"
    /\ \E q \in _generate_ai_question(last.course, last.topic, last.difficulty, last.remote) :
          last' = [last EXCEPT !.op = "_generate_ai_question"] @@ [returns |-> q]
    /\ UNCHANGED <<store, now, active_quizzes, enroll_called, hist, calls>>

NextProvider == GenerateAIQuestion

SpecProvider == InitProvider /\ [][NextProvider]_vars

\* C8: every question _generate_ai_question returns has exactly 4 options and
\* a correct_answer that is one of the letters A, B, C, D.
C8_QuestionWellFormed ==
    last.op = "_generate_ai_question" =>
        /\ IsQuizQuestion(last.returns)
        /\ Len(last.returns.options) = 4
        /\ last.returns.correct_answer \in {<<"A">>, <<"B">>, <<"C">>, <<"D">>}

\* C9: whatever the remote call does, _generate_ai_question returns a
\* QuizQuestion for the course and topic asked: never None, never an exception.
C9_AlwaysAQuestion ==
    last.op = "_generate_ai_question" =>
        /\ last.returns # None
        /\ last.returns # Raised
        /\ IsQuizQuestion(last.returns)
        /\ last.returns.course = last.course
        /\ last.returns.topic = last.topic

\* C9 witness: a reply without the options field, for a topic that has no
\* fallback entries, is answered with the generic question
C9_Witness ==
    /\ last.op = "_generate_ai_question"
    /\ last.course = WebDev
    /\ last.topic = "Responsive Design"
    /\ last.remote.kind = "json_object"
    /\ last.remote.data = ReplyNoOptions
    /\ IsQuizQuestion(last.returns)
    /\ last.returns.options = GenericOptions

\* the remote call gave nothing a question is built from
RemoteFailed(remote) ==
    \/ remote.kind # "json_object"
    \/ ~(RequiredKeys \subseteq DOMAIN remote.data)

\* C20: when the remote generation fails, the question returned for (course,
\* topic) is built from one of the table's entries for exactly that course and
\* topic when there are any, and is the generic question (four options,
\* correct answer B) only when there are none; no entry of another topic or
\* course is returned.
C20_FallbackExactTopic ==
    (last.op = "_generate_ai_question" /\ RemoteFailed(last.remote))
    => LET entries == fallback_questions(last.course, last.topic)
       IN  IF entries # <<>>
           THEN \E i \in 1..Len(entries) :
                   last.returns = _create_question_from_data(last.course, last.topic,
                                                             last.difficulty, entries[i])
           ELSE /\ last.returns = _create_question_from_data(last.course, last.topic,
                                      last.difficulty,
                                      GenericQuestion(last.course, last.topic, last.difficulty))
                /\ last.returns.correct_answer = <<"B">>
                /\ Len(last.returns.options) = 4

\* C20 witness: "Lists and Dictionaries" has an entry under python-basics only;
\* asked under javascript-intro, it gets the generic question
C20_Witness ==
    /\ last.op = "_generate_ai_question"
    /\ last.remote.kind = "api_error"
    /\ last.course = JavascriptIntro
    /\ last.topic = "Lists and Dictionaries"
    /\ last.returns.options = GenericOptions
    /\ last.returns.correct_answer = <<"B">>

-----------------------------------------------------------------------------
(* _generate_ai_question step by step: the call of                         *)
(* self.client.chat.completions.create (line 201) is a step of its own,    *)
(* and what the call does is an input: it returns a reply, raises, or      *)
(* does not return.  The code sets no timeout on the client or on the call *)
(* and does not wrap the call in a wait, so how long the call takes is not *)
(* decided by this code.                                                   *)

\* the call of create does not return
NoReply == [kind |-> "no_reply"]

RemoteTopics == {"Variables and Data Types", "CSS3 and Flexbox", "No Such Topic"}

InitRemote ==
    /\ InitStore
    /\ last \in {[op |-> "request", course |-> c, topic |-> t, difficulty |-> "beginner",
                   remote |-> r, requests |-> 0] :
                     c \in ProviderCourses, t \in RemoteTopics,
                     r \in RemoteOutcomes \cup {NoReply}}

\* lines 170-201: the prompt is built and create is called once
RemoteStart ==
    /\ last.op = "request"
    /\ IF last.course \notin DOMAIN course_curricula
       THEN \* KeyError at line 171, before the call: outer except Exception
            \E q \in FallbackQuestions(last.course, last.topic, last.difficulty) :
               last' = [last EXCEPT !.op = "_generate_ai_question"] @@ [returns |-> q]
       ELSE last' = [last EXCEPT !.op = "awaiting", !.requests = @ + 1]
    /\ UNCHANGED <<store, now, active_quizzes, enroll_called, hist, calls>>

\* on_create_done calling create once more after an API error
on_create_done_retry(l) ==
    IF l.remote.kind = "api_error" /\ l.requests < 2
    THEN {[l EXCEPT !.requests = @ + 1]}
    ELSE {[l EXCEPT !.op = "_generate_ai_question"] @@ [returns |-> q] :
             q \in TryBody(l.course, l.topic, l.difficulty, l.remote)}

\* lines 211-258: what follows the return or the exception of create
on_create_done(l) ==
    {[l EXCEPT !.op = "_generate_ai_question"] @@ [returns |-> q] :
        q \in TryBody(l.course, l.topic, l.difficulty, l.remote)}

\* create returns or raises, and the call of _generate_ai_question ends
RemoteDone ==
    /\ last.op = "awaiting"
    /\ last.remote # NoReply
    /\ last' \in on_create_done(last)
    /\ UNCHANGED <<store, now, active_quizzes, enroll_called, hist, calls>>

NextRemote == RemoteStart \/ RemoteDone

SpecRemote == InitRemote /\ [][NextRemote]_vars

\* a step of the call is taken whenever one can be
SpecRemoteFair == SpecRemote /\ WF_vars(NextRemote)

\* C21: one call of _generate_ai_question calls create at most once, and
\* after a failed call the next step returns the fallback question without
\* another call.
C21_SingleRemoteRequest ==
    [][/\ last'.op \in {"request", "awaiting", "_generate_ai_question"}
           => last'.requests <= 1
       /\ (last.op = "awaiting" /\ RemoteFailed(last.remote))
           => /\ last'.op = "_generate_ai_question"
              /\ last'.requests = last.requests
              /\ last'.returns \in FallbackQuestions(last.course, last.topic,
                                                      last.difficulty)]_vars

\* C21 witness: create raised once and the fallback question was returned
C21_Witness ==
    /\ last.op = "_generate_ai_question"
    /\ last.remote.kind = "api_error"
    /\ last.requests = 1
    /\ last.returns \in FallbackQuestions(last.course, last.topic, last.difficulty)

\* C22: every call of _generate_ai_question ends with a question, also when
\* the remote generator never replies.
C22_AlwaysTerminates ==
    <>(last.op = "_generate_ai_question" /\ IsQuizQuestion(last.returns))

-----------------------------------------------------------------------------
(* check_answer applied to a question the provider may return and a raw    *)
(* answer.                                                                 *)

CheckQuestions ==
    UNION {_generate_ai_question(c, course_curricula[c][i], "beginner", r) :
              c \in DOMAIN course_curricula, i \in 1..2, r \in RemoteOutcomes}

RawAnswers ==
    { <<"a">>, <<"A">>, <<"b">>, <<"B">>, <<"c">>, <<"C">>, <<"d">>, <<"D">>,
      <<" ","a">>, <<"B"," ">>, <<"\t","c","\n">>,
      <<"1">>, <<"2">>, <<"3">>, <<"4">>, <<" ","2"," ">>,
      <<"0">>, <<"5">>, <<"1","2">>, <<"e">>, <<"a","b">>, <<"a",")">>,
      <<>>, <<" ">>, <<"x","y","z">>, <<"f","l","e","x">>, <<"x"," ","="," ","5">>,
      <<"v","a","r">>, <<"L","E","T">>, <<"/","c","a","n","c","e","l">>,
      <<"C","O","N","S","T">>, <<"c","o","n","s","t"," ">> }

InitCheck ==
    /\ InitStore
    /\ last \in {[op |-> "answer", question |-> q, user_answer |-> a] :
                    q \in CheckQuestions, a \in RawAnswers}

CheckAnswer ==
    /\ last.op = "answer"
    /\ last' = [op |-> "check_answer", question |-> last.question,
                returns |-> check_answer(last.question, last.user_answer)]
    /\ UNCHANGED <<store, now, active_quizzes, enroll_called, hist, calls>>

NextCheck == CheckAnswer

SpecCheck == InitCheck /\ [][NextCheck]_vars

\* the letter a raw answer names outright: itself for A-D, the n-th for 1-4
NamedLetter(raw) ==
    LET clean == upper(strip(raw))
    IN  IF clean \in {<<"A">>, <<"B">>, <<"C">>, <<"D">>} THEN clean
        ELSE IF clean \in {<<"1">>, <<"2">>, <<"3">>, <<"4">>}
        THEN <<UpperCase[CHOOSE n \in 1..4 : clean = <<(<<"1", "2", "3", "4">>)[n]>>]>>
        ELSE <<>>

\* C10: an answer that is a letter A-D or a digit 1-4 once trimmed and
\* upper-cased is correct exactly when that letter (the digit's letter) is the
\* question's correct answer, whatever the option texts contain.
C10_LetterOrDigitDecides ==
    (last.op = "check_answer" /\ NamedLetter(last.returns.user_answer) # <<>>)
    => (last.returns.is_correct <=>
            NamedLetter(last.returns.user_answer) = upper(strip(last.question.correct_answer)))

\* C10 witness: "2" is correct for a question whose answer is B although the
\* first option whose text contains "2" is A
C10_Witness ==
    /\ last.op = "check_answer"
    /\ last.returns.user_answer = <<"2">>
    /\ last.question.correct_answer = <<"B">>
    /\ Contains(<<"2">>, last.question.options[1])
    /\ last.returns.is_correct

\* the raw answer is a substring of the i-th option, ignoring case
OptionContains(question, raw, i) ==
    Contains(lower(raw), lower(question.options[i]))

\* C11: an answer that is neither a letter A-D nor a digit 1-4 is correct
\* exactly when the first option, in order, whose text contains the raw answer
\* (ignoring case) sits at the position of the question's correct letter;
\* options after the first match do not count.
C11_FirstMatchDecides ==
    (last.op = "check_answer" /\ NamedLetter(last.returns.user_answer) = <<>>)
    => (last.returns.is_correct <=>
            \E i \in 1..Len(last.question.options) :
                /\ OptionContains(last.question, last.returns.user_answer, i)
                /\ \A j \in 1..(i - 1) :
                      ~OptionContains(last.question, last.returns.user_answer, j)
                /\ chr65(i - 1) = upper(strip(last.question.correct_answer)))

\* C11 witness: "x = 5" is in option A and in the correct option B; the first
\* match, A, decides and the answer is incorrect
C11_Witness ==
    /\ last.op = "check_answer"
    /\ last.returns.user_answer = <<"x"," ","="," ","5">>
    /\ last.question.correct_answer = <<"B">>
    /\ OptionContains(last.question, last.returns.user_answer, 1)
    /\ OptionContains(last.question, last.returns.user_answer, 2)
    /\ ~last.returns.is_correct



\* C29: an answer that is empty once trimmed is incorrect for every question.
C29_EmptyAnswerIsIncorrect ==
    (last.op = "check_answer" /\ strip(last.returns.user_answer) = <<>>)
    => ~last.returns.is_correct

-----------------------------------------------------------------------------
(* Answering: check_answer followed by evaluate_answer on its result, as   *)
(* handle_quiz_answer calls them (bot.py lines 396-399), for user u1, with *)
(* any outcome of each file read and write.                                *)

AnswerQuestions ==
    {_create_question_from_data(PythonBasics, "Variables and Data Types", "beginner", PyVarQ1),
     _create_question_from_data(WebDev, "CSS3 and Flexbox", "beginner", WebCssQ1)}

AnswerTexts ==
    { <<"b">>, <<"1">>, <<"x"," ","="," ","5">>, <<"x","y","z">>,
      <<"/","c","a","n","c","e","l">>, <<"F","L","E","X">> }

InitAnswer ==
    /\ InitStore
    /\ last = [op |-> "init"]

AnswerEnroll(course, read, write) ==
    EnrollUser("u1", course, read, write)

\* check_answer, then evaluate_answer on its result
AnswerQuestion(user_id, question, user_answer, read, write) ==
    LET result == check_answer(question, user_answer)
    IN  /\ CanEvaluate(user_id)
        /\ store' = evaluate_store(store, user_id, result.is_correct, read, write)
        /\ last' = [op |-> "answer", user_id |-> user_id, question |-> question,
                    result |-> result,
                    evaluation |-> evaluate_returns(get_user_profile(store, user_id, read),
                                                    result.is_correct, write)]
        /\ UNCHANGED <<now, active_quizzes, enroll_called, hist, calls>>

NextAnswer ==
    \/ \E c \in Courses, r \in ReadOutcomes, w \in WriteOutcomes : AnswerEnroll(c, r, w)
    \/ \E q \in AnswerQuestions, a \in AnswerTexts, r \in ReadOutcomes, w \in WriteOutcomes :
          AnswerQuestion("u1", q, a, r, w)

SpecAnswer == InitAnswer /\ [][NextAnswer]_vars

\* the raw answer names no letter or digit and is in no option's text
MatchesNothing(question, raw) ==
    /\ NamedLetter(raw) = <<>>
    /\ \A i \in 1..Len(question.options) : ~OptionContains(question, raw, i)

\* C12: an answer that is no letter, no digit and in no option's text is
\* checked without an exception and found incorrect; its evaluation, when the
\* profile is found, sets current_streak to 0, adds 1 to total_questions and
\* leaves correct_answers and longest_streak as they were, and that profile is
\* what a successful write stores.
C12_NoMatchIsIncorrect ==
    [][(/\ last'.op = "answer"
        /\ MatchesNothing(last'.question, last'.result.user_answer))
       => /\ last'.result # Raised
          /\ ~last'.result.is_correct
          /\ last'.evaluation.success =>
                LET old == store[last'.user_id]
                    new == last'.evaluation.updated_profile
                IN  /\ IsProfile(old)
                    /\ new.current_streak = 0
                    /\ new.total_questions = old.total_questions + 1
                    /\ new.correct_answers = old.correct_answers
                    /\ new.longest_streak = old.longest_streak
                    /\ last'.evaluation.saved => store'[last'.user_id] = new]_vars

\* C12 witness: "xyz" ended a streak of two and was stored
C12_Witness ==
    /\ last.op = "answer"
    /\ last.result.user_answer = <<"x","y","z">>
    /\ last.evaluation.success
    /\ last.evaluation.saved
    /\ IsProfile(store["u1"])
    /\ store["u1"].current_streak = 0
    /\ store["u1"].longest_streak = 2
    /\ store["u1"].total_questions = 3

-----------------------------------------------------------------------------
(* LocalStorage (local_storage.py): every profile is an entry of one file, *)
(* users.json.  store[u] is the entry of user u, Absent when the file has  *)
(* none; a file that json.load rejects is Corrupt at every user.           *)

\* outcome of open(file_path, 'r') in _load_json_file: an OSError other than
\* FileNotFoundError is not caught there
LoadOutcomes == {"ok", "os_error"}

\* _load_json_file(self.users_file): the dict returned, Raised when open fails
Local_load_json_file(st, load) ==
    IF load = "os_error" THEN Raised
    ELSE IF \E u \in Users : st[u] = Corrupt
    THEN [u \in Users |-> Absent]        \* JSONDecodeError: return {}
    ELSE st

\* LocalStorage.get_user_profile
Local_get_user_profile(st, user_id, load) ==
    LET users == Local_load_json_file(st, load)
    IN  IF users = Raised THEN Raised
        ELSE IF users[user_id] = Absent THEN None
        ELSE users[user_id]

\* _save_json_file: the file after the call
Local_save_json_file(st, data, write) ==
    CASE write = "ok"          -> data
      [] write = "open_failed" -> st
      [] write = "dump_failed" -> [u \in Users |-> Corrupt]

\* LocalStorage.enroll_user, lines 120-130: the profile it goes on to save
Local_enroll_profile(profile, user_id, course_id) ==
    IF profile = None
    THEN UserProfile(user_id, course_id, <<now>>)
    ELSE [profile EXCEPT !.enrolled_course = course_id, !.start_date = <<now>>]

\* LocalStorage.enroll_user(user_id, course_id): the whole call
LocalEnrollUser(user_id, course_id, load1, load2, write) ==
    LET found == Local_get_user_profile(store, user_id, load1)
        users == Local_load_json_file(store, load2)
    IN  /\ IF found = Raised \/ users = Raised
           THEN /\ UNCHANGED store
                /\ last' = [op |-> "local_enroll_user", user_id |-> user_id,
                            course |-> course_id, returns |-> Raised]
           ELSE /\ store' = Local_save_json_file(store,
                                [users EXCEPT ![user_id] =
                                    Local_enroll_profile(found, user_id, course_id)],
                                write)
                /\ last' = [op |-> "local_enroll_user", user_id |-> user_id,
                            course |-> course_id, returns |-> save_returns(write)]
        /\ enroll_called' = enroll_called \cup {user_id}
        /\ UNCHANGED <<now, active_quizzes, hist, calls>>

InitLocal ==
    /\ InitStore
    /\ last = [op |-> "init"]

NextLocal ==
    \/ \E u \in Users, c \in Courses, l1 \in LoadOutcomes, l2 \in LoadOutcomes,
          w \in WriteOutcomes : LocalEnrollUser(u, c, l1, l2, w)
    \/ Tick

SpecLocal == InitLocal /\ [][NextLocal]_vars

\* C15: with LocalStorage, enroll_user called for a user whose profile has a
\* start_date leaves that start_date as it was.
C15_LocalStartDateKept ==
    [][\A u \in Users :
          (/\ last'.op = "local_enroll_user"
           /\ last'.user_id = u
           /\ IsProfile(store[u])
           /\ IsProfile(store'[u]))
          => store'[u].start_date = store[u].start_date]_vars

-----------------------------------------------------------------------------
(* evaluate_answer taken one storage access at a time: the read of line 31 *)
(* (with the counter update of lines 36-46, which touches only the call's  *)
(* own profile object) and the write of line 49 are separate steps, so     *)
(* that calls interleave between them.  Both users are enrolled; every     *)
(* read and write succeeds.                                                *)

InitCalls ==
    /\ store = [u \in Users |-> UserProfile(u, PythonBasics, <<0>>)]
    /\ now = 0
    /\ active_quizzes = [u \in Users |-> None]
    /\ enroll_called = Users
    /\ hist = <<>>
    /\ calls = [p \in Procs |-> Idle]
    /\ last = [op |-> "init"]

\* lines 31-46: get_user_profile, then the update of the object it returned
EvalRead(p, user_id, is_correct) ==
    LET profile == get_user_profile(store, user_id, "ok")
    IN  /\ calls[p] = Idle
        /\ CanEvaluate(user_id)
        /\ IF profile = None
           THEN /\ UNCHANGED calls
                /\ last' = [op |-> "evaluate_answer", user_id |-> user_id] @@
                           evaluate_returns(profile, is_correct, "ok")
           ELSE /\ calls' = [calls EXCEPT ![p] =
                                [pc |-> "save", user_id |-> user_id,
                                 is_correct |-> is_correct,
                                 profile |-> update_statistics(profile, is_correct)]]
                /\ last' = [op |-> "read", proc |-> p, user_id |-> user_id]
        /\ UNCHANGED <<store, now, active_quizzes, enroll_called, hist>>

\* line 49: save_user_profile(profile), and the return
EvalWrite(p) ==
    /\ calls[p] # Idle
    /\ store' = save_user_profile(store, calls[p].profile, "ok")
    /\ calls' = [calls EXCEPT ![p] = Idle]
    /\ last' = [op |-> "write", proc |-> p, user_id |-> calls[p].user_id,
                replaced |-> store[calls[p].user_id]]
    /\ UNCHANGED <<now, active_quizzes, enroll_called, hist>>

\* the user each caller evaluates for, when the callers serve different users
UserOf == [p \in Procs |-> IF p = "p1" THEN "u1" ELSE "u2"]

NextDisjoint ==
    \/ \E p \in Procs, b \in BOOLEAN : EvalRead(p, UserOf[p], b)
    \/ \E p \in Procs : EvalWrite(p)

SpecDisjoint == InitCalls /\ [][NextDisjoint]_vars

\* C16: when the calls in flight are for different users, each write stores
\* exactly the update of the profile stored for its user at that moment (so
\* no update is lost, and the stored profile is the one the user's own
\* evaluations give in sequence), and changes no other user's profile.
C16_DifferentUsersIndependent ==
    [][\A p \in Procs :
          (calls[p] # Idle /\ calls'[p] = Idle)
          => LET u == calls[p].user_id
             IN  /\ store'[u] = update_statistics(store[u], calls[p].is_correct)
                 /\ \A v \in Users \ {u} : store'[v] = store[v]]_vars

\* C16 witness: p1 has just written for u1 while p2, which read u2's profile
\* before, has not written yet
C16_Witness ==
    /\ last.op = "write"
    /\ last.proc = "p1"
    /\ store["u1"].total_questions = 2
    /\ calls["p2"] # Idle
    /\ calls["p2"].user_id = "u2"
    /\ calls["p2"].profile.total_questions = 1

-----------------------------------------------------------------------------
(* The same steps with both callers free to evaluate for any user, the     *)
(* same user included: a call may read a profile that another call has     *)
(* read and not yet written back.                                          *)

NextShared ==
    \/ \E p \in Procs, u \in Users, b \in BOOLEAN : EvalRead(p, u, b)
    \/ \E p \in Procs : EvalWrite(p)

SpecShared == InitCalls /\ [][NextShared]_vars

\* C28: when evaluations for the same user interleave between the read and
\* the write of the profile, every profile stored has
\* correct_answers <= total_questions and longest_streak >= current_streak.
C28_StoredRecordsStayConsistent ==
    \A u \in Users :
        IsProfile(store[u])
        => /\ store[u].correct_answers <= store[u].total_questions
           /\ store[u].longest_streak >= store[u].current_streak

\* C28 witness: read, read, write, write for u1: the second write has just
\* replaced the record of the other call's wrong answer (1 question, 0
\* correct) with the record of a first correct answer, so one evaluation
\* is lost
C28_Witness ==
    /\ last.op = "write"
    /\ last.user_id = "u1"
    /\ last.replaced.total_questions = 1
    /\ last.replaced.correct_answers = 0
    /\ store["u1"].total_questions = 1
    /\ store["u1"].correct_answers = 1
    /\ \A p \in Procs : calls[p] = Idle

-----------------------------------------------------------------------------
(* The profile file in full: save_user_profile writes asdict(profile) as   *)
(* JSON, get_user_profile parses the file and builds a UserProfile of it.  *)
(* Here a profile has all ten fields of the dataclass and store[u] is the  *)
(* JSON object in user u's file.  An Optional[str] is <<>> for None; the   *)
(* preferences dict is None when absent.                                   *)

\* JSON null where a string is expected (no string of the model has this
\* length), and where an object is expected
JsonNullText == <<"null", "null">>
JsonNullObject == [json |-> "null"]

OptionalTextFields == {"enrolled_course", "start_date", "last_quiz_date"}

FieldNames ==
    {"user_id", "enrolled_course", "start_date", "total_questions", "correct_answers",
     "current_streak", "longest_streak", "last_quiz_date", "completed_course",
     "preferences"}

\* __post_init__: the preferences of a profile built without any
DefaultPreferences ==
    [difficulty |-> "medium", notifications |-> TRUE, quiz_time |-> "09:00"]

\* dataclasses.asdict(profile)
asdict(profile) == [k \in FieldNames |-> profile[k]]

\* json.dump: the object written for a dict
json_dump(data) ==
    [k \in DOMAIN data |->
        IF k \in OptionalTextFields
        THEN (IF data[k] = <<>> THEN JsonNullText ELSE data[k])
        ELSE IF k = "preferences"
        THEN (IF data[k] = None THEN JsonNullObject ELSE data[k])
        ELSE data[k]]

\* json.load: the dict read from an object
json_load(object) ==
    [k \in DOMAIN object |->
        IF k \in OptionalTextFields
        THEN (IF object[k] = JsonNullText THEN <<>> ELSE object[k])
        ELSE IF k = "preferences"
        THEN (IF object[k] = JsonNullObject THEN None ELSE object[k])
        ELSE object[k]]

\* UserProfile built from the parsed dict, with __post_init__; a missing or unknown key raises
\* TypeError, which get_user_profile turns into None
UserProfile_from_data(data) ==
    IF DOMAIN data # FieldNames THEN None
    ELSE [data EXCEPT !.preferences = IF @ = None THEN DefaultPreferences ELSE @]

\* get_user_profile on the full file
get_user_profile_full(st, user_id, read) ==
    IF st[user_id] = Absent THEN None
    ELSE IF read = "io_error" THEN None
    ELSE IF st[user_id] = Corrupt THEN None
    ELSE UserProfile_from_data(json_load(st[user_id]))

\* save_user_profile keeping the stored value of a field the profile has as None
save_user_profile_full_merge(st, profile, write) ==
    LET new == json_dump(asdict(profile))
        old == st[profile.user_id]
    IN  CASE write = "ok" ->
               [st EXCEPT ![profile.user_id] =
                   IF old \in {Absent, Corrupt} THEN new
                   ELSE [k \in FieldNames |->
                            IF k \in OptionalTextFields /\ new[k] = JsonNullText
                            THEN old[k] ELSE new[k]]]
          [] write = "open_failed" -> st
          [] write = "dump_failed" -> [st EXCEPT ![profile.user_id] = Corrupt]

\* save_user_profile on the full file
save_user_profile_full(st, profile, write) ==
    CASE write = "ok"          -> [st EXCEPT ![profile.user_id] = json_dump(asdict(profile))]
      [] write = "open_failed" -> st
      [] write = "dump_failed" -> [st EXCEPT ![profile.user_id] = Corrupt]

\* the profiles saved: u1's in every combination of set and unset fields
FullProfiles ==
    {[user_id |-> u, enrolled_course |-> c, start_date |-> d,
      total_questions |-> n.total, correct_answers |-> n.correct,
      current_streak |-> 0, longest_streak |-> n.correct,
      last_quiz_date |-> q, completed_course |-> n.total > 0 /\ c # <<>>,
      preferences |-> f] :
        u \in {"u1"}, c \in {<<>>, WebDev}, d \in {<<>>, <<0>>}, q \in {<<>>, <<1>>},
        n \in {[total |-> 0, correct |-> 0], [total |-> 2, correct |-> 1]},
        f \in {DefaultPreferences, [DefaultPreferences EXCEPT !.difficulty = "hard"]}}
    \cup
    {[user_id |-> "u2", enrolled_course |-> c, start_date |-> <<0>>,
      total_questions |-> 0, correct_answers |-> 0,
      current_streak |-> 0, longest_streak |-> 0,
      last_quiz_date |-> <<>>, completed_course |-> FALSE,
      preferences |-> DefaultPreferences] : c \in {PythonBasics, WebDev}}

InitFull ==
    /\ InitStore
    /\ last = [op |-> "init"]

FullSave(profile, write) ==
    /\ store' = save_user_profile_full(store, profile, write)
    /\ last' = [op |-> "save_user_profile", profile |-> profile,
                returns |-> save_returns(write)]
    /\ UNCHANGED <<now, active_quizzes, enroll_called, hist, calls>>

FullGet(user_id, read) ==
    /\ last' = [op |-> "get_user_profile", user_id |-> user_id, read |-> read,
                returns |-> get_user_profile_full(store, user_id, read)]
    /\ UNCHANGED <<store, now, active_quizzes, enroll_called, hist, calls>>

NextFull ==
    \/ \E p \in FullProfiles, w \in WriteOutcomes : FullSave(p, w)
    \/ \E u \in Users, r \in ReadOutcomes : FullGet(u, r)

SpecFull == InitFull /\ [][NextFull]_vars

-----------------------------------------------------------------------------
(* evaluate_answer with any arguments: besides a QuizQuestion and a        *)
(* QuizResult, None in the place of either, on which an attribute access   *)
(* raises AttributeError inside the try of lines 29-67.                    *)

\* the body of the try: the dict returned at line 34 or 67, or Raised
evaluate_try(profile, question, result, write) ==
    IF profile = None
    THEN [success |-> FALSE, error |-> "User profile not found"]
    ELSE IF result = None
    THEN Raised            \* result.is_correct, line 38
    ELSE IF question = None
    THEN Raised            \* question.explanation, line 77, after the save of line 49
    ELSE evaluate_returns(profile, result.is_correct, write)

\* evaluate_answer_returns without the except clause of lines 69-71
evaluate_answer_returns_uncaught(profile, question, result, write) ==
    evaluate_try(profile, question, result, write)

\* evaluate_answer: the value returned, the except clause of lines 69-71 included
evaluate_answer_returns(profile, question, result, write) ==
    LET outcome == evaluate_try(profile, question, result, write)
    IN  IF outcome = Raised
        THEN [success |-> FALSE, error |-> "str(e)"]
        ELSE outcome

\* evaluate_answer: the files after the call
evaluate_answer_store(st, user_id, question, result, read, write) ==
    LET profile == get_user_profile(st, user_id, read)
    IN  IF profile = None THEN st
        ELSE IF result = None THEN st       \* raised before the save
        ELSE save_user_profile(st, update_statistics(profile, result.is_correct), write)

\* the arguments: a question or None, a result or None
AnyQuestions ==
    {None, _create_question_from_data(WebDev, "CSS3 and Flexbox", "beginner", WebCssQ1)}

AnyResults ==
    {None} \cup {[is_correct |-> b] : b \in BOOLEAN}

EvaluateAny(user_id, question, result, read, write) ==
    /\ CanEvaluate(user_id)
    /\ store' = evaluate_answer_store(store, user_id, question, result, read, write)
    /\ last' = [op |-> "evaluate_answer", user_id |-> user_id,
                question |-> question, result |-> result,
                returns |-> evaluate_answer_returns(get_user_profile(store, user_id, read),
                                                    question, result, write)]
    /\ UNCHANGED <<now, active_quizzes, enroll_called, hist, calls>>

NextAny ==
    \/ \E c \in Courses, r \in ReadOutcomes, w \in WriteOutcomes : EnrollUser("u1", c, r, w)
    \/ \E q \in AnyQuestions, res \in AnyResults, r \in ReadOutcomes, w \in WriteOutcomes :
          EvaluateAny("u1", q, res, r, w)

SpecAny == Init /\ [][NextAny]_vars

\* C24: whatever its arguments and whatever the file read and write do,
\* evaluate_answer returns a dict: a success payload (success True with the
\* updated profile and the level) or a failure (success False with an error);
\* no exception leaves it.
C24_NoFaultEscapes ==
    last.op = "evaluate_answer"
    => /\ last.returns # Raised
       /\ "success" \in DOMAIN last.returns
       /\ IF last.returns.success
          THEN {"updated_profile", "level", "is_correct"} \subseteq DOMAIN last.returns
          ELSE "error" \in DOMAIN last.returns

\* C24 witness: the result was None for a stored profile, and the call
\* returned a failure
C24_Witness ==
    /\ last.op = "evaluate_answer"
    /\ last.result = None
    /\ IsProfile(store["u1"])
    /\ store["u1"].total_questions = 1
    /\ last.returns # Raised
    /\ ~last.returns.success
    /\ last.returns.error = "str(e)"

-----------------------------------------------------------------------------
(* The divisions correct_answers / total_questions.  Each operator below   *)
(* is the set of divisors that one place of the code divides by for a      *)
(* given profile: empty when the place does not divide.                    *)

\* difficulty_divisors without the test of line 144
difficulty_divisors_unguarded(profile) ==
    {profile.total_questions}

\* _determine_difficulty, lines 144-147
difficulty_divisors(profile) ==
    IF profile.total_questions = 0 THEN {} ELSE {profile.total_questions}

\* _generate_feedback, line 94: in the branch of a correct answer, no test
feedback_divisors(profile, is_correct) ==
    IF is_correct THEN {profile.total_questions} ELSE {}

\* _generate_learning_insights, line 121
insights_divisors(profile) ==
    IF profile.total_questions > 0 THEN {profile.total_questions} ELSE {}

\* _get_performance_summary, line 174
summary_divisors(profile) ==
    IF profile.total_questions > 0 THEN {profile.total_questions} ELSE {}

\* the accuracy a guarded place computes, in tenths rounded down: 0 without
\* a division when total_questions is 0
accuracy_tenths(profile) ==
    IF profile.total_questions > 0
    THEN (10 * profile.correct_answers) \div profile.total_questions
    ELSE 0

\* evaluate_answer, lines 52-58: the three places called on the updated profile
evaluate_divisors(profile, is_correct) ==
    LET updated == update_statistics(profile, is_correct)
    IN  feedback_divisors(updated, is_correct)
          \cup insights_divisors(updated)
          \cup summary_divisors(updated)

\* evaluate_answer, with the divisors it used
DivideEvaluate(is_correct, read, write) ==
    LET profile == get_user_profile(store, "u1", read)
    IN  /\ CanEvaluate("u1")
        /\ store' = evaluate_store(store, "u1", is_correct, read, write)
        /\ last' = [op |-> "evaluate_answer",
                    total_before |-> IF profile = None THEN 0 ELSE profile.total_questions,
                    divisors |-> IF profile = None THEN {}
                                 ELSE evaluate_divisors(profile, is_correct),
                    accuracy |-> IF profile = None THEN 0
                                 ELSE accuracy_tenths(update_statistics(profile, is_correct))]
        /\ UNCHANGED <<now, active_quizzes, enroll_called, hist, calls>>

\* generate_personalized_question, line 114: the difficulty for a profile read
DivideDifficulty(read) ==
    LET profile == get_user_profile(store, "u1", read)
    IN  /\ profile # None
        /\ last' = [op |-> "_determine_difficulty",
                    total_before |-> profile.total_questions,
                    divisors |-> difficulty_divisors(profile),
                    accuracy |-> accuracy_tenths(profile),
                    returns |-> _determine_difficulty(profile)]
        /\ UNCHANGED <<store, now, active_quizzes, enroll_called, hist, calls>>

NextDivide ==
    \/ \E c \in Courses, r \in ReadOutcomes, w \in WriteOutcomes : EnrollUser("u1", c, r, w)
    \/ \E b \in BOOLEAN, r \in ReadOutcomes, w \in WriteOutcomes : DivideEvaluate(b, r, w)
    \/ \E r \in ReadOutcomes : DivideDifficulty(r)

SpecDivide == Init /\ [][NextDivide]_vars

\* C25: no computation of accuracy divides by zero: every divisor used by
\* difficulty selection, feedback, insights and the performance summary is
\* greater than 0, and for a profile with no question answered no division
\* is made and the accuracy is 0.
C25_NoDivisionByZero ==
    last.op \in {"evaluate_answer", "_determine_difficulty"}
    => /\ \A d \in last.divisors : d > 0
       /\ (last.op = "_determine_difficulty" /\ last.total_before = 0)
            => (last.divisors = {} /\ last.accuracy = 0)

\* C25 witness: the difficulty was asked for an enrolled user's profile with
\* no question answered, and no division was made
C25_Witness ==
    /\ last.op = "_determine_difficulty"
    /\ last.total_before = 0
    /\ last.divisors = {}
    /\ last.returns = "beginner"
    /\ IsProfile(store["u1"])
    /\ store["u1"].total_questions = 0

-----------------------------------------------------------------------------
(* The chat layer (bot.py): one action per incoming message, the whole of  *)
(* on_message_activity and the handler it dispatches to.  The clock is not *)
(* advanced here: no handler's branch reads it.                            *)

CmdHelp    == <<"/","h","e","l","p">>
CmdEnroll  == <<"/","e","n","r","o","l","l">>
CmdProfile == <<"/","p","r","o","f","i","l","e">>
CmdQuiz    == <<"/","q","u","i","z">>
CmdSample  == <<"/","s","a","m","p","l","e">>
CmdCancel  == <<"/","c","a","n","c","e","l">>
CmdStatus  == <<"/","s","t","a","t","u","s">>
CmdAdmin   == <<"/","a","d","m","i","n">>

\* the messages users send
BotTexts ==
    { CmdCancel, CmdQuiz, CmdHelp,
      CmdEnroll \o <<" ">> \o WebDev, CmdEnroll \o <<" ">> \o Cobol,
      <<"a">>, <<"d">> }

\* the replies of the remote generator explored behind /quiz
BotRemoteOutcomes ==
    {[kind |-> "api_error"],
     [kind |-> "json_object", data |-> ReplyOk]}

\* generate_personalized_question: the values one call may return
generate_personalized_question(st, user_id, read, remote) ==
    LET profile == get_user_profile(st, user_id, read)
    IN  IF profile = None THEN {None}
        ELSE IF profile.enrolled_course = NoCourse THEN {None}
        ELSE IF profile.enrolled_course \notin DOMAIN course_curricula THEN {None}
        ELSE LET course     == profile.enrolled_course
                 difficulty == _determine_difficulty(profile)
                 topics     == course_curricula[course]
             IN  UNION {_generate_ai_question(course, topics[i], difficulty, remote) :
                           i \in 1..Len(topics)}

\* what one message did: the reply sent, with the state the handler leaves
Replied(user_id, text, reply) ==
    last' = [op |-> "message", user_id |-> user_id, text |-> text, reply |-> reply]

\* handle_quiz_answer: the answer is checked once (line 396), then evaluated
\* under every outcome of the profile read and write
handle_quiz_answer(user_id, text, answer) ==
    LET question == active_quizzes[user_id]
        result   == check_answer(question, answer)
    IN  \E is_correct \in {result.is_correct} :
        \E read \in ReadOutcomes, write \in WriteOutcomes :
            LET evaluation == evaluate_returns(get_user_profile(store, user_id, read),
                                               is_correct, write)
            IN  /\ store' = evaluate_store(store, user_id, is_correct, read, write)
                /\ IF evaluation.success
                   THEN /\ active_quizzes' = [active_quizzes EXCEPT ![user_id] = None]
                        /\ Replied(user_id, text, "feedback")
                   ELSE /\ UNCHANGED active_quizzes
                        /\ Replied(user_id, text, "error processing your answer")
                /\ UNCHANGED <<now, enroll_called, hist, calls>>

\* handle_enroll_command
handle_enroll_command(user_id, text, message_text) ==
    LET parts == split(message_text)
    IN  IF Len(parts) < 2
        THEN /\ Replied(user_id, text, "please specify a course")
             /\ UNCHANGED <<store, now, active_quizzes, enroll_called, hist, calls>>
        ELSE IF parts[2] \notin available_courses
        THEN /\ Replied(user_id, text, "course not found")
             /\ UNCHANGED <<store, now, active_quizzes, enroll_called, hist, calls>>
        ELSE \E read \in ReadOutcomes, write \in WriteOutcomes, read2 \in ReadOutcomes :
                LET course == parts[2]
                    st2 == save_user_profile(store,
                               enroll_profile(store, user_id, course, read), write)
                IN  /\ store' = st2
                    /\ enroll_called' = enroll_called \cup {user_id}
                    /\ IF ~enroll_returns(read, write)
                       THEN Replied(user_id, text, "enrollment failed")
                       ELSE IF get_user_profile(st2, user_id, read2) = None
                       THEN \* profile.start_date raises: except of on_message_activity
                            Replied(user_id, text, "error processing your message")
                       ELSE Replied(user_id, text, "enrollment successful")
                    /\ UNCHANGED <<now, active_quizzes, hist, calls>>

\* handle_quiz_command
handle_quiz_command(user_id, text) ==
    \E read \in ReadOutcomes :
        LET profile == get_user_profile(store, user_id, read)
        IN  IF profile = None \/ (profile # None /\ profile.enrolled_course = NoCourse)
            THEN /\ Replied(user_id, text, "please enroll in a course first")
                 /\ UNCHANGED <<store, now, active_quizzes, enroll_called, hist, calls>>
            ELSE IF active_quizzes[user_id] # None
            THEN /\ Replied(user_id, text, "you already have an active quiz")
                 /\ UNCHANGED <<store, now, active_quizzes, enroll_called, hist, calls>>
            ELSE \E read2 \in ReadOutcomes, remote \in BotRemoteOutcomes :
                 \E question \in generate_personalized_question(store, user_id, read2, remote) :
                    /\ IF question = None
                       THEN /\ Replied(user_id, text, "could not generate a question")
                            /\ UNCHANGED active_quizzes
                       ELSE /\ active_quizzes' = [active_quizzes EXCEPT ![user_id] = question]
                            /\ Replied(user_id, text, "question")
                    /\ UNCHANGED <<store, now, enroll_called, hist, calls>>

\* handle_cancel_command
handle_cancel_command(user_id, text) ==
    /\ IF active_quizzes[user_id] # None
       THEN /\ active_quizzes' = [active_quizzes EXCEPT ![user_id] = None]
            /\ Replied(user_id, text, "quiz cancelled")
       ELSE /\ UNCHANGED active_quizzes
            /\ Replied(user_id, text, "no active quiz to cancel")
    /\ UNCHANGED <<store, now, enroll_called, hist, calls>>

\* the handlers that only read: /help, /profile, /sample, /status, /admin and
\* the default reply
read_only_reply(user_id, text, reply) ==
    /\ Replied(user_id, text, reply)
    /\ UNCHANGED <<store, now, active_quizzes, enroll_called, hist, calls>>

\* /quiz is not explored for a user who has answered MaxAsked questions
CanAsk(user_id, message_text) ==
    (active_quizzes[user_id] = None /\ startswith(lower(message_text), CmdQuiz))
        => (IsProfile(store[user_id]) => store[user_id].total_questions < MaxAsked)

\* on_message_activity
OnMessage(user_id, text) ==
    LET message_text  == strip(text)
        message_lower == lower(message_text)
    IN  /\ CanAsk(user_id, message_text)
        /\ IF active_quizzes[user_id] # None
           THEN handle_quiz_answer(user_id, text, message_text)
           ELSE IF startswith(message_lower, CmdHelp)
           THEN read_only_reply(user_id, text, "help")
           ELSE IF startswith(message_lower, CmdEnroll)
           THEN handle_enroll_command(user_id, text, message_text)
           ELSE IF startswith(message_lower, CmdProfile)
           THEN read_only_reply(user_id, text, "profile")
           ELSE IF startswith(message_lower, CmdQuiz)
           THEN handle_quiz_command(user_id, text)
           ELSE IF startswith(message_lower, CmdSample)
           THEN read_only_reply(user_id, text, "sample")
           ELSE IF startswith(message_lower, CmdCancel)
           THEN handle_cancel_command(user_id, text)
           ELSE IF startswith(message_lower, CmdStatus)
           THEN read_only_reply(user_id, text, "status")
           ELSE IF startswith(message_lower, CmdAdmin)
           THEN read_only_reply(user_id, text, "admin")
           ELSE read_only_reply(user_id, text, "hello")

InitBot ==
    /\ InitStore
    /\ last = [op |-> "init"]

NextBot ==
    \E u \in Users, text \in BotTexts : OnMessage(u, text)

SpecBot == InitBot /\ [][NextBot]_vars

\* C1: when a user with a pending question sends /cancel, the pending question
\* is dropped and the user's stored counters are unchanged.
C1_CancelDropsPendingOnly ==
    [][\A u \in Users :
          (/\ last'.op = "message"
           /\ last'.user_id = u
           /\ strip(last'.text) = CmdCancel
           /\ active_quizzes[u] # None)
          => (/\ active_quizzes'[u] = None
              /\ IsProfile(store[u]) =>
                    /\ IsProfile(store'[u])
                    /\ Counters(store'[u]) = Counters(store[u]))]_vars


\* C26: when a user with a pending question sends /quiz, the bot replies that
\* a quiz is already active, and the pending question and the user's stored
\* profile are unchanged.
C26_QuizWhilePendingIsRefused ==
    [][\A u \in Users :
          (/\ last'.op = "message"
           /\ last'.user_id = u
           /\ strip(last'.text) = CmdQuiz
           /\ active_quizzes[u] # None)
          => (/\ last'.reply = "you already have an active quiz"
              /\ active_quizzes'[u] = active_quizzes[u]
              /\ store'[u] = store[u])]_vars

\* C27: the next message of a user with a pending question removes the
\* pending question, also when the evaluation of the message fails.
C27_NextMessageDropsPending ==
    [][\A u \in Users :
          (/\ last'.op = "message"
           /\ last'.user_id = u
           /\ active_quizzes[u] # None)
          => active_quizzes'[u] = None]_vars


=============================================================================
